---- MODULE Spec2Model ----
(***************************************************************************)
(* Model of recipes/minimal_examples/neural_networks/ASR_Transducer/        *)
(* example_asr_transducer_experiment.py: data_prep, the TransducerBrain     *)
(* hooks and main(), together with the parts of the toolkit they drive      *)
(* (label encoder, dynamic-item dataset, the fit/evaluate loop).            *)
(*                                                                         *)
(* A string is a sequence of glyphs; the glyph "<bos>" stands for the       *)
(* five-character text <bos> (and "<blank>" likewise), which no other glyph  *)
(* sequence spells.                                                        *)
(* A loss is a number of thousandths.                                      *)
(***************************************************************************)
EXTENDS Integers, Sequences, FiniteSets, TLC

VARIABLES
    hparams,        \* the loaded hyperparameters (blank_index, bos_index, N_epochs)
    manifest,       \* the two JSON manifests: [train, dev], each a sequence of entries
    pc,             \* position of the caller of data_prep (main, or a direct caller)
    dpc,            \* position inside data_prep
    invocation,     \* how many times data_prep has been invoked
    train_data,     \* data_prep's train_data
    valid_data,     \* data_prep's valid_data
    label_encoder,  \* data_prep's label_encoder
    log,            \* what data_prep has done to the encoder so far, in order
    first,          \* what the first invocation of data_prep returned
    fetched,        \* the last record fetched from a returned dataset
    err,            \* the exception that ended the run, or "none"
    stage,          \* the stage the loop is in
    epoch,          \* the epoch the loop is in (None under evaluate)
    batch_idx,      \* index of the next batch of the stage
    predictions,    \* what compute_forward returned for the batch in flight
    attrs,          \* attributes set on the TransducerBrain instance
    printed,        \* lines written by the on_stage_end call last made
    handed,         \* last (stage, stage_loss, epoch) the loop gave on_stage_end
    objectives,     \* batches given to compute_objectives in the current stage
    searches,       \* calls of the beam searcher in the current stage
    last_train      \* last (stage_loss, epoch) the loop gave on_stage_end for TRAIN

vars == <<hparams, manifest, pc, dpc, invocation, train_data, valid_data,
          label_encoder, log, first, fetched, err, stage, epoch, batch_idx,
          predictions, attrs, printed, handed, objectives, searches, last_train>>

prepVars == <<train_data, valid_data, label_encoder, log, dpc>>
brainVars == <<stage, epoch, batch_idx, predictions, attrs, printed, handed,
               objectives, searches, last_train>>

\* ------------------------------------------------------------------ bounds

MaxGlyphs == 4
MaxEpochs == 2

Glyphs == {"a", " ", "<bos>"}
Indices == {0, 1}
TrainIds == <<"utt1", "utt2">>
DevIds == <<"utt3">>

None == "None"
\* an object with no attribute set
NoAttrs == [a \in {} |-> 0]
\* epoch=None, the epoch the hooks get under evaluate
NoEpoch == 0 - 1

\* ------------------------------------------------------------- python str

Min(S) == CHOOSE x \in S : \A y \in S : x <= y
Max(S) == CHOOSE x \in S : \A y \in S : x >= y

IsSpace(g) == g = " "

RECURSIVE LStrip(_)
LStrip(s) == IF s # <<>> /\ IsSpace(Head(s)) THEN LStrip(Tail(s)) ELSE s

RECURSIVE RStrip(_)
RStrip(s) ==
    IF s # <<>> /\ IsSpace(s[Len(s)]) THEN RStrip(SubSeq(s, 1, Len(s) - 1)) ELSE s

\* str.strip()
Strip(s) == RStrip(LStrip(s))

\* str.split(): the maximal runs of non-whitespace, in order
RECURSIVE SplitFrom(_, _, _)
SplitFrom(s, cur, acc) ==
    IF s = <<>> THEN (IF cur = <<>> THEN acc ELSE Append(acc, cur))
    ELSE IF IsSpace(Head(s))
         THEN SplitFrom(Tail(s), <<>>, IF cur = <<>> THEN acc ELSE Append(acc, cur))
         ELSE SplitFrom(Tail(s), Append(cur, Head(s)), acc)

Split(s) == SplitFrom(s, <<>>, <<>>)

Range(f) == {f[x] : x \in DOMAIN f}

\* ----------------------------------------------------------- label encoder

BlankLabel == <<"<blank>">>
BosLabel == <<"<bos>">>
EosLabelOwn == <<"<eos>">>

\* the eos_label argument data_prep passes to insert_bos_eos
EosLabel == <<"<bos>">>

EmptyMap == [l \in {} |-> 0]

StaleEncoder ==
    IF invocation = 1
    THEN [lab2ind |-> EmptyMap, blank_label |-> None, bos_label |-> None,
          eos_label |-> None]
    ELSE label_encoder

\* CTCTextEncoder()
NewEncoder == [lab2ind |-> EmptyMap, blank_label |-> None, bos_label |-> None,
               eos_label |-> None]

\* _next_index: the first index, from 0, that no label holds
NextIndex(used) == Min({i \in 0..Cardinality(used) : i \notin used})

\* enforce_label: the label gets the index; a label that held it moves to the
\* next free index
EnforceLabel(l2i, label, index) ==
    LET others == DOMAIN l2i \ {label}
        saved == {l \in others : l2i[l] = index}
        kept == {l2i[l] : l \in others \ saved} \cup {index}
    IN [l \in DOMAIN l2i \cup {label} |->
            IF l = label THEN index
            ELSE IF l \in saved THEN NextIndex(kept)
            ELSE l2i[l]]

\* insert_label raises KeyError when the label is present
CanInsert(enc, label) == label \notin DOMAIN enc.lab2ind

\* add_label / ensure_label: an absent label gets the next free index
EnsureLabel(l2i, label) ==
    IF label \in DOMAIN l2i THEN l2i
    ELSE l2i @@ (label :> NextIndex(Range(l2i)))

\* insert_blank(index)
InsertBlank(enc, index) ==
    [enc EXCEPT !.lab2ind = EnforceLabel(@, BlankLabel, index),
                !.blank_label = BlankLabel]

\* insert_bos_eos(bos_label, eos_label, bos_index): equal labels share one entry;
\* otherwise eos takes the next free index
InsertBosEos(enc, bos_label, eos_label, bos_index) ==
    LET withBos == EnforceLabel(enc.lab2ind, bos_label, bos_index)
    IN [enc EXCEPT !.lab2ind = IF bos_label = eos_label THEN withBos
                                ELSE EnsureLabel(withBos, eos_label),
                   !.bos_label = bos_label,
                   !.eos_label = eos_label]

RECURSIVE UpdateFromSequence(_, _)
UpdateFromSequence(l2i, labels) ==
    IF labels = <<>> THEN l2i
    ELSE UpdateFromSequence(EnsureLabel(l2i, Head(labels)), Tail(labels))

\* encode_sequence_torch raises KeyError on a label that is not in the encoder
CanEncode(enc, labels) == \A i \in DOMAIN labels : labels[i] \in DOMAIN enc.lab2ind

EncodeSequence(enc, labels) == [i \in DOMAIN labels |-> enc.lab2ind[labels[i]]]

\* prepend_bos_index
PrependBos(enc, x) == <<enc.lab2ind[enc.bos_label]>> \o x

\* ----------------------------------------------------------------- dataset

StaticKeys == {"id", "wav", "phn"}
AudioKeys == {"sig"}
\* the keys text_pipeline provides, in the order it yields them
TextKeys == <<"phn_list", "phn_encoded", "phn_encoded_bos">>
OutputKeysWithList == {"id", "sig", "phn_list", "phn_encoded", "phn_encoded_bos"}

\* the keys data_prep sets as output
OutputKeys == {"id", "sig", "phn_encoded", "phn_encoded_bos"}

\* from_json
FromJson(entries) == [data |-> entries, pipelines |-> {}, output_keys |-> {}]

AddDynamicItem(ds, name) == [ds EXCEPT !.pipelines = @ \cup {name}]

SetOutputKeys(ds, keys) == [ds EXCEPT !.output_keys = keys]

\* how far text_pipeline has to run to yield the requested keys
StagesNeeded(keys) ==
    LET wanted == {n \in DOMAIN TextKeys : TextKeys[n] \in keys}
    IN IF wanted = {} THEN 0 ELSE Max(wanted)

\* audio_pipeline
AudioPipeline(wav) == [read_audio |-> wav]

\* text_pipeline, stage by stage
PhnList(phn) == Split(Strip(phn))
PhnEncoded(enc, phn) == EncodeSequence(enc, PhnList(phn))
PhnEncodedBosAppended(enc, phn) ==
    PhnEncoded(enc, phn) \o <<enc.lab2ind[enc.bos_label]>>

PhnEncodedBos(enc, phn) == PrependBos(enc, PhnEncoded(enc, phn))

Provided(ds) ==
    StaticKeys \cup (IF "audio_pipeline" \in ds.pipelines THEN AudioKeys ELSE {})
               \cup (IF "text_pipeline" \in ds.pipelines THEN Range(TextKeys) ELSE {})

\* a record can be produced when every key has a provider and, if the encode
\* stage has to run, every symbol is known to the encoder
CanFetch(ds, i, keys, enc) ==
    /\ keys \subseteq Provided(ds)
    /\ StagesNeeded(keys) >= 2 =>
          /\ CanEncode(enc, PhnList(ds.data[i].phn))
          /\ StagesNeeded(keys) >= 3 => enc.bos_label \in DOMAIN enc.lab2ind

Item(ds, i, keys, enc) ==
    LET e == ds.data[i]
    IN [k \in keys |->
            CASE k = "id" -> e.id
              [] k = "wav" -> e.wav
              [] k = "phn" -> e.phn
              [] k = "sig" -> AudioPipeline(e.wav)
              [] k = "phn_list" -> PhnList(e.phn)
              [] k = "phn_encoded" -> PhnEncoded(enc, e.phn)
              [] k = "phn_encoded_bos" -> PhnEncodedBos(enc, e.phn)]

\* the sequences a dataset yields through output_key, concatenated
RECURSIVE Chain(_, _, _, _)
Chain(ds, i, key, enc) ==
    IF i > Len(ds.data) THEN <<>>
    ELSE Item(ds, i, {key}, enc)[key] \o Chain(ds, i + 1, key, enc)

CanScan(enc, ds, key) == \A i \in DOMAIN ds.data : CanFetch(ds, i, {key}, enc)

\* update_from_didataset(ds, output_key): the dataset is read with output_key as
\* its only output key and every label met is ensured
UpdateFromDidataset(enc, ds, key) ==
    [enc EXCEPT !.lab2ind = UpdateFromSequence(@, Chain(ds, 1, key, enc))]

\* ------------------------------------------------------------------ inputs

RECURSIVE StringsUpTo(_)
StringsUpTo(n) ==
    IF n = 0 THEN {<<>>}
    ELSE LET shorter == StringsUpTo(n - 1)
         IN shorter \cup {Append(s, g) : s \in {t \in shorter : Len(t) = n - 1},
                                         g \in Glyphs}

Entry(id, phn) == [id |-> id, wav |-> id, phn |-> phn]

\* the manifests whose transcripts hold n glyphs or fewer in all: a text of that
\* length cut in three, two train entries and one dev entry
ManifestsUpTo(n) ==
    {[train |-> <<Entry(TrainIds[1], SubSeq(s, 1, c1)),
                  Entry(TrainIds[2], SubSeq(s, c1 + 1, c2))>>,
      dev |-> <<Entry(DevIds[1], SubSeq(s, c2 + 1, Len(s)))>>] :
        <<s, c1, c2>> \in {t \in StringsUpTo(n) \X (0..n) \X (0..n) :
                              t[2] <= t[3] /\ t[3] <= Len(t[1])}}

Manifests == ManifestsUpTo(MaxGlyphs)

\* the manifests main is run on
SampleManifests == ManifestsUpTo(2)

HParams == [blank_index : Indices, bos_index : Indices, N_epochs : 0..MaxEpochs]

\* --------------------------------------------------------------- data_prep

Event(op, ds, key, enc) ==
    [op |-> op, ds |-> ds, key |-> key, stages |-> StagesNeeded({key}),
     reserved |-> {BlankLabel, BosLabel} \subseteq DOMAIN enc.lab2ind]

Raise(e) ==
    /\ dpc' = "raised"
    /\ err' = e

\* lines 83-92
DataPrepDeclare ==
    /\ dpc = "declare"
    /\ train_data' = FromJson(manifest.train)
    /\ valid_data' = FromJson(manifest.dev)
    /\ label_encoder' = NewEncoder
    /\ log' = <<>>
    /\ dpc' = "audio"
    /\ UNCHANGED <<hparams, manifest, pc, invocation, first, fetched, err>>
    /\ UNCHANGED brainVars

\* lines 95-101
DataPrepAudio ==
    /\ dpc = "audio"
    /\ train_data' = AddDynamicItem(train_data, "audio_pipeline")
    /\ valid_data' = AddDynamicItem(valid_data, "audio_pipeline")
    /\ dpc' = "text"
    /\ UNCHANGED <<hparams, manifest, pc, invocation, first, fetched, err,
                   label_encoder, log>>
    /\ UNCHANGED brainVars

\* lines 104-116
DataPrepText ==
    /\ dpc = "text"
    /\ train_data' = AddDynamicItem(train_data, "text_pipeline")
    /\ valid_data' = AddDynamicItem(valid_data, "text_pipeline")
    /\ dpc' = "insert_blank"
    /\ UNCHANGED <<hparams, manifest, pc, invocation, first, fetched, err,
                   label_encoder, log>>
    /\ UNCHANGED brainVars

\* line 120
DataPrepInsertBlank ==
    /\ dpc = "insert_blank"
    /\ IF CanInsert(label_encoder, BlankLabel)
       THEN /\ label_encoder' = InsertBlank(label_encoder, hparams.blank_index)
            /\ log' = Append(log, Event("insert_blank", None, None, label_encoder'))
            /\ dpc' = "insert_bos_eos"
            /\ UNCHANGED err
       ELSE /\ Raise("KeyError")
            /\ UNCHANGED <<label_encoder, log>>
    /\ UNCHANGED <<hparams, manifest, pc, invocation, first, fetched,
                   train_data, valid_data>>
    /\ UNCHANGED brainVars

\* lines 121-123
DataPrepInsertBosEos ==
    /\ dpc = "insert_bos_eos"
    /\ IF CanInsert(label_encoder, BosLabel)
       THEN /\ label_encoder' =
                  InsertBosEos(label_encoder, BosLabel, EosLabel, hparams.bos_index)
            /\ log' = Append(log, Event("insert_bos_eos", None, None, label_encoder'))
            /\ dpc' = "fit_train"
            /\ UNCHANGED err
       ELSE /\ Raise("KeyError")
            /\ UNCHANGED <<label_encoder, log>>
    /\ UNCHANGED <<hparams, manifest, pc, invocation, first, fetched,
                   train_data, valid_data>>
    /\ UNCHANGED brainVars

\* the output_key data_prep fits the encoder through
FitKey == "phn_list"

Fit(ds, name, next) ==
    /\ IF CanScan(label_encoder, ds, FitKey)
       THEN /\ log' = Append(log, Event("update_from_didataset", name, FitKey,
                                        label_encoder))
            /\ label_encoder' = UpdateFromDidataset(label_encoder, ds, FitKey)
            /\ dpc' = next
            /\ UNCHANGED err
       ELSE /\ Raise("KeyError")
            /\ UNCHANGED <<label_encoder, log>>
    /\ UNCHANGED <<hparams, manifest, pc, invocation, first, fetched,
                   train_data, valid_data>>
    /\ UNCHANGED brainVars

\* line 124
DataPrepFitTrain ==
    /\ dpc = "fit_train"
    /\ Fit(train_data, "train", "fit_valid")

DataPrepFitValidSkipped ==
    /\ dpc = "fit_valid"
    /\ dpc' = "set_output"
    /\ UNCHANGED <<hparams, manifest, pc, invocation, first, fetched, err,
                   train_data, valid_data, label_encoder, log>>
    /\ UNCHANGED brainVars

\* line 125
DataPrepFitValid ==
    /\ dpc = "fit_valid"
    /\ Fit(valid_data, "valid", "set_output")

\* lines 128-131
DataPrepSetOutput ==
    /\ dpc = "set_output"
    /\ train_data' = SetOutputKeys(train_data, OutputKeys)
    /\ valid_data' = SetOutputKeys(valid_data, OutputKeys)
    /\ dpc' = "returned"
    /\ UNCHANGED <<hparams, manifest, pc, invocation, first, fetched, err,
                   label_encoder, log>>
    /\ UNCHANGED brainVars

\* ------------------------------------------------ data_prep called directly

Returned == [train |-> train_data, valid |-> valid_data, encoder |-> label_encoder]

Dataset(name) == IF name = "train" THEN train_data ELSE valid_data

\* a record of a returned dataset is read: dataset[i]
Fetch(name, i) ==
    /\ pc = "caller"
    /\ dpc = "returned"
    /\ i \in DOMAIN Dataset(name).data
    /\ LET ds == Dataset(name)
       IN IF CanFetch(ds, i, ds.output_keys, label_encoder)
          THEN /\ fetched' = [ds |-> name, i |-> i,
                              item |-> Item(ds, i, ds.output_keys, label_encoder)]
               /\ UNCHANGED err
          ELSE /\ err' = "KeyError"
               /\ UNCHANGED fetched
    /\ UNCHANGED <<hparams, manifest, pc, invocation, first>>
    /\ UNCHANGED prepVars
    /\ UNCHANGED brainVars

FetchAny == \E name \in {"train", "valid"}, i \in 1..Len(TrainIds) + Len(DevIds) :
                Fetch(name, i)

\* data_prep is invoked again with the same data folder and hparams
Reinvoke ==
    /\ pc = "caller"
    /\ dpc = "returned"
    /\ invocation = 1
    /\ first' = Returned
    /\ invocation' = 2
    /\ dpc' = "declare"
    /\ UNCHANGED <<hparams, manifest, pc, fetched, err, train_data, valid_data,
                   label_encoder, log>>
    /\ UNCHANGED brainVars

NoData == [data |-> <<>>, pipelines |-> {}, output_keys |-> {}]

InitBrain ==
    /\ stage = None
    /\ epoch = NoEpoch
    /\ batch_idx = 0
    /\ predictions = None
    /\ attrs = [a \in {} |-> 0]
    /\ printed = <<>>
    /\ handed = [stage |-> None, stage_loss |-> 0, epoch |-> NoEpoch]
    /\ objectives = <<>>
    /\ searches = 0
    /\ last_train = [stage_loss |-> 0, epoch |-> NoEpoch]

InitPrep ==
    /\ hparams \in {h \in HParams : h.N_epochs = 0}
    /\ manifest \in Manifests
    /\ pc = "caller"
    /\ dpc = "declare"
    /\ invocation = 1
    /\ train_data = NoData
    /\ valid_data = NoData
    /\ label_encoder = NewEncoder
    /\ log = <<>>
    /\ first = [train |-> NoData, valid |-> NoData, encoder |-> NewEncoder]
    /\ fetched = [ds |-> None, i |-> 0, item |-> NoAttrs]
    /\ err = "none"
    /\ InitBrain

DataPrep ==
    \/ DataPrepDeclare
    \/ DataPrepAudio
    \/ DataPrepText
    \/ DataPrepInsertBlank
    \/ DataPrepInsertBosEos
    \/ DataPrepFitTrain
    \/ DataPrepFitValid
    \/ DataPrepSetOutput

NextPrep ==
    \/ DataPrep
    \/ FetchAny
    \/ Reinvoke

SpecPrep == InitPrep /\ [][NextPrep]_vars

\* ---------------------------------------------------------- TransducerBrain

TRAIN == "TRAIN"
VALID == "VALID"
TEST == "TEST"

\* the threshold of main's final assertion, 1.0
Threshold == 1000

\* stage losses the loop may report, in thousandths
LossValues == {250, 996, 1000, 1500}
\* edit counts the scoring of one batch's hypotheses may give
EditCounts == {0, 1}

\* "%.2f": thousandths to the nearest hundredth, ties to even
Fmt2(x) ==
    LET q == x \div 10
        r == x % 10
    IN IF r > 5 \/ (r = 5 /\ q % 2 = 1) THEN q + 1 ELSE q

Has(obj, a) == a \in DOMAIN obj

SetAttr(obj, a, v) == [x \in DOMAIN obj \cup {a} |-> IF x = a THEN v ELSE obj[x]]

\* the dataset a stage iterates: train_set under TRAIN, valid_set under VALID,
\* the set given to evaluate under TEST (main gives valid_data)
StageSet ==
    IF stage = TRAIN THEN train_data ELSE valid_data

\* the loop's batches: one record each, in dataset order
NumBatches == Len(StageSet.data)

BatchReady == CanFetch(StageSet, batch_idx, StageSet.output_keys, label_encoder)

Batch == Item(StageSet, batch_idx, StageSet.output_keys, label_encoder)

Fail(e) ==
    /\ pc' = "failed"
    /\ err' = e

\* per_stats()
PerStats == <<>>

\* per_metrics.append(ids, predict, target)
PerAppend(metrics, id, seq, phns) ==
    Append(metrics, [id |-> id, edits |-> seq.edits, tokens |-> Len(phns)])

RECURSIVE Sum(_, _)
Sum(entries, f) ==
    IF entries = <<>> THEN 0 ELSE entries[1][f] + Sum(Tail(entries), f)

\* per_metrics.summarize("error_rate"): edits over scored tokens
Summarize(metrics) == [edits |-> Sum(metrics, "edits"), tokens |-> Sum(metrics, "tokens")]

ForwardResultAlwaysHyps(st, hyps) == <<"outputs", "lens", hyps>>

\* lines 38-42: what compute_forward returns
ForwardResult(st, hyps) ==
    IF st = TRAIN THEN <<"outputs", "lens">> ELSE <<"outputs", "lens", hyps>>

\* lines 38-41: whether compute_forward calls the searcher
RunsSearcher(st) == st # TRAIN

\* lines 15-42
ComputeForward ==
    /\ pc = "forward"
    /\ IF ~BatchReady
       THEN /\ Fail("KeyError")
            /\ UNCHANGED <<predictions, searches>>
       ELSE IF ~({"sig", "phn_encoded_bos"} \subseteq DOMAIN Batch)
       THEN /\ Fail("AttributeError")
            /\ UNCHANGED <<predictions, searches>>
       ELSE /\ \E e \in EditCounts :
                  predictions' = ForwardResult(stage, [hyps |-> Batch.id, edits |-> e])
            /\ searches' = IF RunsSearcher(stage) THEN searches + 1 ELSE searches
            /\ pc' = "objectives"
            /\ UNCHANGED err
    /\ UNCHANGED <<hparams, manifest, invocation, first, fetched>>
    /\ UNCHANGED prepVars
    /\ UNCHANGED <<stage, epoch, batch_idx, attrs, printed, handed, objectives,
                   last_train>>

\* lines 48-51: how many values compute_objectives unpacks predictions into
UnpackLen(st) == IF st = TRAIN THEN 2 ELSE 3

\* lines 50-52: whether compute_objectives appends to per_metrics
Accumulates(st) == st # TRAIN

\* lines 44-60
ComputeObjectives ==
    /\ pc = "objectives"
    /\ IF ~Has(Batch, "phn_encoded")
       THEN /\ Fail("AttributeError")
            /\ UNCHANGED <<attrs, objectives, batch_idx>>
       ELSE IF Len(predictions) # UnpackLen(stage)
       THEN /\ Fail("ValueError")
            /\ UNCHANGED <<attrs, objectives, batch_idx>>
       ELSE IF Accumulates(stage) /\ ~Has(attrs, "per_metrics")
       THEN /\ Fail("AttributeError")
            /\ UNCHANGED <<attrs, objectives, batch_idx>>
       ELSE /\ attrs' = IF Accumulates(stage)
                        THEN SetAttr(attrs, "per_metrics",
                                     PerAppend(attrs.per_metrics, Batch.id,
                                               predictions[Len(predictions)],
                                               Batch.phn_encoded))
                        ELSE attrs
            /\ objectives' = Append(objectives, Batch.id)
            /\ batch_idx' = batch_idx + 1
            /\ pc' = IF batch_idx < NumBatches THEN "forward" ELSE "stage_end"
            /\ UNCHANGED err
    /\ UNCHANGED <<hparams, manifest, invocation, first, fetched>>
    /\ UNCHANGED prepVars
    /\ UNCHANGED <<stage, epoch, predictions, printed, handed, searches,
                   last_train>>

ResetsValidOnly(st) == st = VALID

ResetsTestOnly(st) == st = TEST

\* line 64: whether on_stage_start makes a new accumulator
Resets(st) == st # TRAIN

\* lines 62-65, then the loop turns to the stage's first batch
OnStageStart ==
    /\ pc = "stage_start"
    /\ attrs' = IF Resets(stage) THEN SetAttr(attrs, "per_metrics", PerStats)
                ELSE attrs
    /\ batch_idx' = 1
    /\ objectives' = <<>>
    /\ searches' = 0
    /\ predictions' = None
    /\ pc' = IF NumBatches > 0 THEN "forward" ELSE "stage_end"
    /\ UNCHANGED <<hparams, manifest, invocation, first, fetched, err>>
    /\ UNCHANGED prepVars
    /\ UNCHANGED <<stage, epoch, printed, handed, last_train>>

RemembersEveryStage(st) == TRUE

\* line 69: whether on_stage_end stores the stage loss as train_loss
Remembers(st) == st = TRAIN

\* line 71: whether on_stage_end prints the epoch and the training loss
PrintsEpoch(st, ep) == st = VALID /\ ep # NoEpoch

PrintsStageValidOnly(st) == st = VALID

\* line 74: whether on_stage_end prints the stage loss and the error rate
PrintsStage(st) == st # TRAIN

Line(text, st, value) == [text |-> text, stage |-> st, value |-> value]

\* lines 72-73
EpochLines(obj, ep) ==
    <<Line("Epoch %d complete", None, ep),
      Line("Train loss: %.2f", None, Fmt2(obj.train_loss))>>

\* lines 75-76
StageLines(obj, st, stage_loss) ==
    <<Line("loss: %.2f", st, Fmt2(stage_loss)),
      Line("PER: %.2f", st, Summarize(obj.per_metrics))>>

\* the attributes on_stage_end reads
EndReads(st, ep) ==
    (IF PrintsEpoch(st, ep) THEN {"train_loss"} ELSE {})
        \cup (IF PrintsStage(st) THEN {"per_metrics"} ELSE {})

\* lines 67-76, then the loop moves on: to validation after training, to the
\* next epoch or out of fit after validation, out of evaluate after test
OnStageEnd ==
    /\ pc = "stage_end"
    /\ \E stage_loss \in LossValues :
        LET after == IF Remembers(stage) THEN SetAttr(attrs, "train_loss", stage_loss)
                     ELSE attrs
        IN /\ handed' = [stage |-> stage, stage_loss |-> stage_loss, epoch |-> epoch]
           /\ last_train' = IF stage = TRAIN
                            THEN [stage_loss |-> stage_loss, epoch |-> epoch]
                            ELSE last_train
           /\ attrs' = after
           /\ IF ~(EndReads(stage, epoch) \subseteq DOMAIN after)
              THEN /\ Fail("AttributeError")
                   /\ printed' = <<>>
                   /\ UNCHANGED <<stage, epoch>>
              ELSE /\ printed' =
                        (IF PrintsEpoch(stage, epoch) THEN EpochLines(after, epoch)
                         ELSE <<>>)
                        \o (IF PrintsStage(stage)
                            THEN StageLines(after, stage, stage_loss) ELSE <<>>)
                   /\ UNCHANGED err
                   /\ IF stage = TRAIN
                      THEN /\ stage' = VALID
                           /\ pc' = "stage_start"
                           /\ UNCHANGED epoch
                      ELSE IF stage = VALID
                      THEN IF epoch + 1 < hparams.N_epochs
                           THEN /\ epoch' = epoch + 1
                                /\ stage' = TRAIN
                                /\ pc' = "stage_start"
                           ELSE /\ pc' = "evaluate"
                                /\ UNCHANGED <<stage, epoch>>
                      ELSE /\ pc' = "assert"
                           /\ UNCHANGED <<stage, epoch>>
    /\ UNCHANGED <<hparams, manifest, invocation, first, fetched>>
    /\ UNCHANGED prepVars
    /\ UNCHANGED <<batch_idx, predictions, objectives, searches>>

\* -------------------------------------------------------------------- main

\* lines 149-159: the brain is constructed and fit starts its first epoch
MainFit ==
    /\ pc = "data_prep"
    /\ dpc = "returned"
    /\ attrs' = NoAttrs
    /\ IF hparams.N_epochs > 0
       THEN /\ epoch' = 0
            /\ stage' = TRAIN
            /\ pc' = "stage_start"
       ELSE /\ pc' = "evaluate"
            /\ UNCHANGED <<epoch, stage>>
    /\ UNCHANGED <<hparams, manifest, invocation, first, fetched, err>>
    /\ UNCHANGED prepVars
    /\ UNCHANGED <<batch_idx, predictions, printed, handed, objectives, searches,
                   last_train>>

\* line 161
MainEvaluate ==
    /\ pc = "evaluate"
    /\ stage' = TEST
    /\ epoch' = NoEpoch
    /\ pc' = "stage_start"
    /\ UNCHANGED <<hparams, manifest, invocation, first, fetched, err>>
    /\ UNCHANGED prepVars
    /\ UNCHANGED <<batch_idx, predictions, attrs, printed, handed, objectives,
                   searches, last_train>>

\* line 164: the comparison main asserts
Overfits(loss) == loss < Threshold

\* line 164
MainAssert ==
    /\ pc = "assert"
    /\ IF ~Has(attrs, "train_loss") THEN Fail("AttributeError")
       ELSE IF Overfits(attrs.train_loss)
       THEN /\ pc' = "done"
            /\ UNCHANGED err
       ELSE Fail("AssertionError")
    /\ UNCHANGED <<hparams, manifest, invocation, first, fetched>>
    /\ UNCHANGED prepVars
    /\ UNCHANGED brainVars

Init ==
    /\ hparams \in HParams
    /\ manifest \in SampleManifests
    /\ pc = "data_prep"
    /\ dpc = "declare"
    /\ invocation = 1
    /\ train_data = NoData
    /\ valid_data = NoData
    /\ label_encoder = NewEncoder
    /\ log = <<>>
    /\ first = [train |-> NoData, valid |-> NoData, encoder |-> NewEncoder]
    /\ fetched = [ds |-> None, i |-> 0, item |-> NoAttrs]
    /\ err = "none"
    /\ InitBrain

Next ==
    \/ DataPrep
    \/ MainFit
    \/ OnStageStart
    \/ ComputeForward
    \/ ComputeObjectives
    \/ OnStageEnd
    \/ MainEvaluate
    \/ MainAssert

Spec == Init /\ [][Next]_vars

\* ------------------------------------------------------------------ claims

ReservedLabels == {<<"<blank>">>, <<"<bos>">>}

\* the phoneme symbols in the token lists of a manifest's entries
Symbols(entries) == UNION {Range(PhnList(entries[i].phn)) : i \in DOMAIN entries}

Distinct == Symbols(manifest.train) \cup Symbols(manifest.dev)

Vocabulary == DOMAIN label_encoder.lab2ind

MainEnded == pc \in {"done", "failed"} /\ err \in {"none", "AssertionError"}

\* C1: with N_epochs >= 1 and no earlier exception, the value main compares with
\* 1.0 is the stage loss given to on_stage_end for TRAIN in the last epoch (no
\* VALID or TEST stage end changes it), and main fails exactly when that value is
\* not below 1.0.
C1_FinalTrainLoss ==
    /\ Has(attrs, "train_loss") => attrs.train_loss = last_train.stage_loss
    /\ (hparams.N_epochs >= 1 /\ MainEnded) =>
          /\ Has(attrs, "train_loss")
          /\ last_train.epoch = hparams.N_epochs - 1
          /\ (pc = "done") <=> (last_train.stage_loss < 1000)
          /\ (pc = "failed") <=> (err = "AssertionError")

C1_Witness ==
    /\ pc = "failed"
    /\ err = "AssertionError"
    /\ hparams.N_epochs = 2
    /\ handed.stage = TEST
    /\ handed.stage_loss < 1000
    /\ last_train.stage_loss = 1000

\* C2 as stated: after data_prep returns, the vocabulary size is the number of
\* distinct phoneme symbols of train and dev plus three (blank, bos, eos).
C2_PlusThree ==
    dpc = "returned" => Cardinality(Vocabulary) = Cardinality(Distinct) + 3

\* C2 amended: after data_prep returns, the vocabulary is the distinct phoneme
\* symbols of train and dev together with the two reserved labels <blank> and
\* <bos> (eos shares the <bos> entry); its size is the number of distinct symbols
\* plus two when no symbol is itself a reserved label.
C2_PlusTwo ==
    dpc = "returned" =>
        /\ Vocabulary = Distinct \cup ReservedLabels
        /\ label_encoder.eos_label = label_encoder.bos_label
        /\ Distinct \cap ReservedLabels = {} =>
              Cardinality(Vocabulary) = Cardinality(Distinct) + 2

C2_Witness ==
    /\ dpc = "returned"
    /\ Distinct \cap ReservedLabels = {}
    /\ Symbols(manifest.train) \ Symbols(manifest.dev) # {}
    /\ Symbols(manifest.dev) \ Symbols(manifest.train) # {}
    /\ Cardinality(Vocabulary) = 4

WasFetched == fetched.ds # None

\* C3: in every record of either dataset, phn_encoded_bos is one longer than
\* phn_encoded, starts with hparams["bos_index"] and continues with phn_encoded
\* in order.
C3_BosPrefixed ==
    WasFetched =>
        /\ {"phn_encoded", "phn_encoded_bos"} \subseteq DOMAIN fetched.item
        /\ Len(fetched.item.phn_encoded_bos) = Len(fetched.item.phn_encoded) + 1
        /\ fetched.item.phn_encoded_bos[1] = hparams.bos_index
        /\ Tail(fetched.item.phn_encoded_bos) = fetched.item.phn_encoded

C3_Witness ==
    /\ WasFetched
    /\ hparams.blank_index = hparams.bos_index
    /\ Len(fetched.item.phn_encoded) = 2
    /\ fetched.item.phn_encoded[1] # fetched.item.phn_encoded[2]

ScanKeys == {log[i].key : i \in {j \in DOMAIN log : log[j].op = "update_from_didataset"}}

\* C4: the datasets data_prep returns expose exactly id, sig, phn_encoded and
\* phn_encoded_bos (no wav, phn or phn_list), although phn_list was the output
\* key while the encoder was fitted.
C4_FourFields ==
    /\ WasFetched =>
          DOMAIN fetched.item = {"id", "sig", "phn_encoded", "phn_encoded_bos"}
    /\ dpc = "returned" =>
          /\ train_data.output_keys = {"id", "sig", "phn_encoded", "phn_encoded_bos"}
          /\ valid_data.output_keys = {"id", "sig", "phn_encoded", "phn_encoded_bos"}
          /\ ScanKeys = {"phn_list"}

C4_Witness ==
    /\ WasFetched
    /\ fetched.ds = "valid"
    /\ fetched.item.id = DevIds[1]
    /\ ScanKeys = {"phn_list"}

Encodings(ds, enc) ==
    [i \in DOMAIN ds.data |->
        <<PhnEncoded(enc, ds.data[i].phn), PhnEncodedBos(enc, ds.data[i].phn)>>]

\* C5: a second invocation of data_prep on the same manifests and hparams
\* returns datasets of the same sizes whose records have the same encoded
\* sequences, and the same symbol-to-id mapping, as the first.
C5_Deterministic ==
    /\ invocation = 2 => dpc # "raised"
    /\ (invocation = 2 /\ dpc = "returned") =>
          /\ Len(train_data.data) = Len(first.train.data)
          /\ Len(valid_data.data) = Len(first.valid.data)
          /\ label_encoder.lab2ind = first.encoder.lab2ind
          /\ Encodings(train_data, label_encoder) = Encodings(first.train, first.encoder)
          /\ Encodings(valid_data, label_encoder) = Encodings(first.valid, first.encoder)

C5_Witness ==
    /\ invocation = 2
    /\ dpc = "returned"
    /\ Cardinality(Vocabulary) = 4
    /\ Distinct \cap ReservedLabels = {}
    /\ hparams.blank_index = hparams.bos_index

\* C6 (one step): an on_stage_end for TRAIN stores the stage loss and prints
\* nothing; for VALID it prints the epoch, the training loss of the same epoch,
\* the validation loss and the error rate; for TEST the loss and the error rate.
C6_Step ==
    (pc = "stage_end" /\ pc' \notin {"stage_end", "failed"}) =>
        /\ handed'.stage = stage
        /\ handed'.epoch = epoch
        /\ stage = TRAIN =>
              /\ printed' = <<>>
              /\ Has(attrs', "train_loss")
              /\ attrs'.train_loss = handed'.stage_loss
        /\ stage = VALID =>
              /\ Len(printed') = 4
              /\ printed'[1] = Line("Epoch %d complete", None, epoch)
              /\ last_train.epoch = epoch
              /\ printed'[2] = Line("Train loss: %.2f", None, Fmt2(last_train.stage_loss))
              /\ printed'[3] = Line("loss: %.2f", VALID, Fmt2(handed'.stage_loss))
              /\ printed'[4] = Line("PER: %.2f", VALID, Summarize(attrs.per_metrics))
        /\ stage = TEST =>
              /\ Len(printed') = 2
              /\ printed'[1] = Line("loss: %.2f", TEST, Fmt2(handed'.stage_loss))
              /\ printed'[2] = Line("PER: %.2f", TEST, Summarize(attrs.per_metrics))

\* C6: every on_stage_end remembers or prints what its stage calls for.
C6_StageEnd == [][C6_Step]_vars

C6_Witness ==
    /\ handed.stage = VALID
    /\ handed.epoch = 1
    /\ Len(printed) = 4
    /\ printed[2].value # printed[3].value
    /\ printed[4].value.edits = 1

PerMetrics(obj) ==
    IF Has(obj, "per_metrics") THEN <<TRUE, obj.per_metrics>> ELSE <<FALSE, <<>>>>

InStage == pc \in {"forward", "objectives", "stage_end"}

\* C7 (state): inside a validation or test stage the accumulator holds exactly
\* one entry per batch given to compute_objectives in that stage, and at the
\* stage's end one per batch of the stage's dataset.
C7_OnePerBatch ==
    (stage # TRAIN /\ InStage) =>
        /\ Has(attrs, "per_metrics")
        /\ [i \in DOMAIN attrs.per_metrics |-> attrs.per_metrics[i].id] = objectives
        /\ pc = "stage_end" => Len(objectives) = Len(valid_data.data)

\* C7 (step): no step of a training stage adds to or clears the accumulator.
C7_TrainStep ==
    (stage = TRAIN /\ pc \in {"stage_start", "forward", "objectives", "stage_end"}) =>
        PerMetrics(attrs') = PerMetrics(attrs)

\* C7: the accumulator summarized at a validation or test stage end holds one
\* entry per batch of that stage, nothing carried over, nothing touched by
\* training.
C7_Accumulator == []C7_OnePerBatch /\ [][C7_TrainStep]_vars

C7_Witness ==
    /\ stage = TEST
    /\ pc = "stage_end"
    /\ hparams.N_epochs = 2
    /\ Len(attrs.per_metrics) = 1

\* C8: compute_forward returns two values under TRAIN and three otherwise, the
\* searcher runs only outside training (once per batch there), and
\* compute_objectives never fails to unpack what compute_forward returned.
C8_Shapes ==
    /\ err # "ValueError"
    /\ pc = "objectives" => Len(predictions) = IF stage = TRAIN THEN 2 ELSE 3
    /\ (stage = TRAIN /\ InStage) => searches = 0
    /\ (stage # TRAIN /\ InStage) =>
          searches = IF pc = "objectives" THEN batch_idx ELSE batch_idx - 1

C8_Witness ==
    /\ pc = "objectives"
    /\ stage = VALID
    /\ Len(predictions) = 3
    /\ searches = 1

\* C10: the brain is constructed with neither attribute set, and with
\* N_epochs >= 1 no hook and no assertion reads train_loss or per_metrics before
\* it was assigned.
C10_AssignedBeforeRead ==
    /\ (pc = "stage_start" /\ stage = TRAIN /\ epoch = 0) => attrs = NoAttrs
    /\ hparams.N_epochs >= 1 =>
          /\ err # "AttributeError"
          /\ (pc = "objectives" /\ stage # TRAIN) => Has(attrs, "per_metrics")
          /\ (pc = "stage_end" /\ stage # TRAIN) => Has(attrs, "per_metrics")
          /\ (pc = "stage_end" /\ stage = VALID) => Has(attrs, "train_loss")
          /\ pc = "assert" => Has(attrs, "train_loss")

C10_Witness ==
    /\ hparams.N_epochs >= 1
    /\ pc = "done"
    /\ Has(attrs, "train_loss")
    /\ Has(attrs, "per_metrics")

FitOps == <<"insert_blank", "insert_bos_eos", "update_from_didataset",
            "update_from_didataset">>

\* C9: data_prep inserts blank and bos, then scans train and then valid through
\* phn_list alone (the encode and prepend stages do not run), and every encoding
\* asked for after it returns finds all its symbols in the vocabulary.
C9_FittedBeforeEncoding ==
    /\ err = "none"
    /\ Len(log) <= Len(FitOps)
    /\ \A i \in DOMAIN log :
          /\ log[i].op = FitOps[i]
          /\ log[i].op = "update_from_didataset" =>
                /\ log[i].key = "phn_list"
                /\ log[i].stages = 1
                /\ log[i].reserved
                /\ log[i].ds = IF i = 3 THEN "train" ELSE "valid"
    /\ dpc = "returned" =>
          /\ Len(log) = Len(FitOps)
          /\ \A name \in {"train", "valid"} : \A i \in DOMAIN Dataset(name).data :
                CanFetch(Dataset(name), i, Dataset(name).output_keys, label_encoder)

C9_Witness ==
    /\ dpc = "returned"
    /\ WasFetched
    /\ fetched.ds = "valid"
    /\ Len(fetched.item.phn_encoded) = 1
    /\ Symbols(manifest.dev) \cap (Symbols(manifest.train) \cup ReservedLabels) = {}

====
